---- MODULE Spec2Model ----
(***************************************************************************)
(* wayfreeze (src/src/main.rs): a Wayland client that captures every       *)
(* output, shows the capture on a full-screen layer surface and exits on   *)
(* Escape or a pointer click.                                              *)
(*                                                                         *)
(* The client is single threaded.  ScreenFreezer::freeze is a sequence of  *)
(* blocking_dispatch calls; every event handler (Dispatch<..>::event) runs *)
(* inside such a call.  One action below is one handler run or one         *)
(* stretch of freeze between two blocking_dispatch calls.  The server is   *)
(* the environment: it sends an event only on an object the client has     *)
(* created, and the event is handled in the same step.                     *)
(***************************************************************************)
EXTENDS Integers, Sequences, FiniteSets, TLC

(* ------------------------------ bounds --------------------------------- *)

\* wl_output globals the server advertises before the first round-trip ends
MaxOutputs == 2

\* events a server may send beyond its one answer per request: a repeated
\* Geometry, Mode, LogicalSize, Keymap or Configure, a Closed, a
\* GlobalRemove; and answers that carry a value the
\* client cannot use (an unknown buffer format, a keymap that is no xkb v1
\* keymap or does not compile)
MaxExtra == 1

(* --------------------------- value domains ----------------------------- *)

\* Option<(proxy, name)>::None; registry names start at 1
NoName == 0

\* wl_output::Transform values (Normal, _90) by their protocol numbers
Transforms == {0, 1}

\* wl_shm::Format numbers: Xrgb8888, and one the bindings do not
\* know (a WEnum::Unknown)
Xrgb8888 == 1
UnknownFormat == 99
Formats == {Xrgb8888, UnknownFormat}

\* wl_output mode sizes (the last one has a pixel count of 2^30), xdg_output
\* logical sizes
ModeSizes == {<<1920, 1080>>, <<2560, 1440>>, <<32768, 32768>>}
LogicalSizes == {<<1920, 1080>>, <<1280, 720>>}

\* wp_fractional_scale_v1 preferred scales, in 1/120
Scales == {120, 180}

\* what the server sends an output the first time: one profile per index
NominalTransform(i) == IF i = 1 THEN 1 ELSE 0
NominalMode(i) == IF i = 1 THEN <<2560, 1440>> ELSE <<1920, 1080>>
NominalLogical(i) == IF i = 1 THEN <<1280, 720>> ELSE <<1920, 1080>>

\* evdev key codes
KEY_ESC == 1
KEY_CAPSLOCK == 58
Keys == {KEY_ESC, KEY_CAPSLOCK}

\* wl_keyboard::KeyState and wl_pointer::ButtonState numbers
Released == 0
Pressed == 1
KeyStates == {Released, Pressed}

\* evdev button codes BTN_LEFT, BTN_RIGHT
BTN_LEFT == 272
BTN_RIGHT == 273
Buttons == {BTN_LEFT, BTN_RIGHT}

\* keymaps the server may hand out: the usual one, one with Escape and
\* Caps Lock swapped, and one that xkbcommon fails to compile
KeymapIds == {"us", "swapescape", "broken"}

\* wl_keyboard::KeymapFormat numbers
NoKeymap == 0
XkbV1 == 1
KeymapFormats == {NoKeymap, XkbV1}

\* the command lines tried: the defaults, --hide-cursor with a
\* before-freeze command, a before-freeze and an after-freeze command
ArgSets ==
  {[hide_cursor |-> FALSE, before_cmd |-> "", after_cmd |-> ""],
   [hide_cursor |-> TRUE, before_cmd |-> "cmd", after_cmd |-> ""],
   [hide_cursor |-> FALSE, before_cmd |-> "cmd", after_cmd |-> "cmd"]}

(* ------------------------------ helpers -------------------------------- *)

EmptyMap == <<>>

Has(m, k) == k \in DOMAIN m

\* vec_insert: HashMap::insert under an Option that is created on demand
vec_insert(m, k, v) == [x \in (DOMAIN m) \cup {k} |-> IF x = k THEN v ELSE m[x]]

\* a request sent to the server, and an event received from it
Req(op, i, args) == [op |-> op, output |-> i, args |-> args]
Ev(kind, i, args) == [kind |-> kind, output |-> i, args |-> args]
NoEv == Ev("none", -1, <<>>)

Ops(rs) == [k \in DOMAIN rs |-> rs[k].op]

(* ------------------------------ state ---------------------------------- *)

VARIABLES
  \* AppData
  compositor, seat, shm, fs_manager, viewporter, xdg_output_manager,
  screencopy_manager, layer_shell, pointer, keyboard,
  outputs, surfaces, widths, heights, phys_widths, phys_heights, transforms,
  scales, viewports, shm_pools, buffers, layer_surfaces, screencopy_frames,
  context, keymap, kbstate,
  hide_cursor, before_cmd, after_cmd,
  configured_surfaces, frames_ready, outputs_ready, output_count, exit,
  \* the thread: where freeze is, and whether the current blocking_dispatch
  \* call has dispatched an event
  pc, dispatched,
  \* the event handled by the last step and what the step did, in order:
  \* the requests it sent, the commands it spawned and its sleeps; the
  \* commands and sleeps of the whole run
  ev, reqs, cmdlog,
  \* the server: its globals and how many of them it has announced,
  \* xdg_output objects that have not sent their logical size, the state of each capture, Configure
  \* events sent per layer surface, acknowledgements and attaches received,
  \* closed layer surfaces, fractional-scale objects and the scale last
  \* sent on each, the extra events it may still send
  globals, announced, xdg_unanswered, frame_state, configures, acks, attaches,
  closed, sent_scale, extra,
  \* the connection: the requests the handlers have sent since
  \* blocking_dispatch was called; it flushes them to the server when it is
  \* called again
  unflushed

capvars == <<compositor, seat, shm, fs_manager, viewporter, xdg_output_manager,
             screencopy_manager, layer_shell, pointer, keyboard>>
geovars == <<surfaces, widths, heights, phys_widths, phys_heights, transforms>>
shmvars == <<shm_pools, buffers, screencopy_frames>>
layervars == <<scales, viewports, layer_surfaces, configured_surfaces>>
kbvars == <<context, keymap, kbstate>>
argvars == <<hide_cursor, before_cmd, after_cmd>>
countvars == <<frames_ready, outputs_ready, output_count>>
srvvars == <<globals, announced, xdg_unanswered, frame_state, configures, acks,
             attaches, closed, sent_scale>>

\* AppData, the state the handlers and freeze own
appvars == <<capvars, outputs, geovars, shmvars, layervars, kbvars, argvars,
             countvars, exit>>

vars == <<appvars, pc, dispatched, ev, reqs, cmdlog, srvvars, extra, unflushed>>

\* the globals of a server with n outputs, in the order it announces them;
\* a global's name is its place in the list.  One global is of a kind the
\* client does not use, and the server has a second seat
BaseGlobals == <<"wl_compositor", "wl_shm", "wl_seat", "xdg_wm_base",
                 "wp_viewporter", "wp_fractional_scale_manager_v1",
                 "zxdg_output_manager_v1", "zwlr_screencopy_manager_v1",
                 "zwlr_layer_shell_v1", "wl_seat">>
GlobalList(n) ==
  [k \in 1..(Len(BaseGlobals) + n) |->
     IF k <= Len(BaseGlobals) THEN BaseGlobals[k] ELSE "wl_output"]

\* indices of the outputs bound so far (the vector's positions)
OutputIds == 0..(Len(outputs) - 1)

Count(m, i) == IF Has(m, i) THEN m[i] ELSE 0

\* AppData::default() with the options of ScreenFreezer::new, before the
\* round-trip of new
InitApp ==
  /\ compositor = NoName /\ seat = NoName /\ shm = NoName
  /\ fs_manager = NoName /\ viewporter = NoName
  /\ xdg_output_manager = NoName /\ screencopy_manager = NoName
  /\ layer_shell = NoName
  /\ pointer = FALSE /\ keyboard = FALSE
  /\ outputs = <<>>
  /\ surfaces = EmptyMap /\ widths = EmptyMap /\ heights = EmptyMap
  /\ phys_widths = EmptyMap /\ phys_heights = EmptyMap
  /\ transforms = EmptyMap /\ scales = EmptyMap /\ viewports = EmptyMap
  /\ shm_pools = EmptyMap /\ buffers = EmptyMap
  /\ layer_surfaces = EmptyMap /\ screencopy_frames = EmptyMap
  /\ context = FALSE /\ keymap = "None" /\ kbstate = "None"
  /\ \E a \in ArgSets :
       /\ hide_cursor = a.hide_cursor
       /\ before_cmd = a.before_cmd
       /\ after_cmd = a.after_cmd
  /\ configured_surfaces = EmptyMap
  /\ frames_ready = 0 /\ outputs_ready = 0 /\ output_count = 0
  /\ exit = FALSE
  /\ pc = "roundtrip" /\ dispatched = FALSE
  /\ ev = NoEv /\ reqs = <<>> /\ cmdlog = <<>>
  /\ \E n \in 0..MaxOutputs : globals = GlobalList(n)
  /\ announced = 0
  /\ xdg_unanswered = EmptyMap /\ frame_state = EmptyMap
  /\ configures = EmptyMap /\ acks = EmptyMap /\ attaches = EmptyMap
  /\ closed = {} /\ sent_scale = EmptyMap
  /\ unflushed = {}

Init == InitApp /\ extra = MaxExtra

\* blocking_dispatch is running: freeze is at one of its five calls
Dispatching ==
  pc \in {"dispatch0", "geom_wait", "frame_wait", "surface_wait", "terminal"}


\* the requests of rs that the server answers with an event: they are
\* written to the connection and reach the server at the next flush
Awaited(rs) ==
  {<<rs[k].op, rs[k].output>> :
     k \in {x \in DOMAIN rs : rs[x].op \in {"get_xdg_output", "copy", "attach"}}}

\* what every handler run leaves behind: the event, the requests it sent
Handled(e, rs) ==
  /\ ev' = e
  /\ reqs' = rs
  /\ dispatched' = TRUE
  /\ unflushed' = unflushed \cup Awaited(rs)
  /\ UNCHANGED cmdlog

(* --------------------- wl_registry (lines 101-223) --------------------- *)

\* a variant of RegistryGlobal: a seat is bound whenever one is announced
RegistryGlobalEverySeat(name, interface) ==
  /\ compositor' = IF interface = "wl_compositor" /\ compositor = NoName
                   THEN name ELSE compositor
  /\ outputs' = IF interface = "wl_output" THEN Append(outputs, name) ELSE outputs
  /\ seat' = IF interface = "wl_seat" THEN name ELSE seat
  /\ pointer' = IF interface = "wl_seat" THEN TRUE ELSE pointer
  /\ keyboard' = IF interface = "wl_seat" THEN TRUE ELSE keyboard
  /\ shm' = IF interface = "wl_shm" /\ shm = NoName THEN name ELSE shm
  /\ fs_manager' = IF interface = "wp_fractional_scale_manager_v1"
                      /\ fs_manager = NoName
                   THEN name ELSE fs_manager
  /\ viewporter' = IF interface = "wp_viewporter" /\ viewporter = NoName
                   THEN name ELSE viewporter
  /\ xdg_output_manager' = IF interface = "zxdg_output_manager_v1"
                              /\ xdg_output_manager = NoName
                           THEN name ELSE xdg_output_manager
  /\ screencopy_manager' = IF interface = "zwlr_screencopy_manager_v1"
                              /\ screencopy_manager = NoName
                           THEN name ELSE screencopy_manager
  /\ layer_shell' = IF interface = "zwlr_layer_shell_v1" /\ layer_shell = NoName
                    THEN name ELSE layer_shell

\* Event::Global: the if / else-if chain of lines 117-179
RegistryGlobal(name, interface) ==
  /\ compositor' = IF interface = "wl_compositor" /\ compositor = NoName
                   THEN name ELSE compositor
  /\ outputs' = IF interface = "wl_output" THEN Append(outputs, name) ELSE outputs
  /\ seat' = IF interface = "wl_seat" /\ seat = NoName THEN name ELSE seat
  /\ pointer' = IF interface = "wl_seat" /\ seat = NoName THEN TRUE ELSE pointer
  /\ keyboard' = IF interface = "wl_seat" /\ seat = NoName THEN TRUE ELSE keyboard
  /\ shm' = IF interface = "wl_shm" /\ shm = NoName THEN name ELSE shm
  /\ fs_manager' = IF interface = "wp_fractional_scale_manager_v1"
                      /\ fs_manager = NoName
                   THEN name ELSE fs_manager
  /\ viewporter' = IF interface = "wp_viewporter" /\ viewporter = NoName
                   THEN name ELSE viewporter
  /\ xdg_output_manager' = IF interface = "zxdg_output_manager_v1"
                              /\ xdg_output_manager = NoName
                           THEN name ELSE xdg_output_manager
  /\ screencopy_manager' = IF interface = "zwlr_screencopy_manager_v1"
                              /\ screencopy_manager = NoName
                           THEN name ELSE screencopy_manager
  /\ layer_shell' = IF interface = "zwlr_layer_shell_v1" /\ layer_shell = NoName
                    THEN name ELSE layer_shell

\* a variant of GlobalRequests: every output is bound with index 0
GlobalRequestsIndexZero(name, interface) ==
  IF interface = "wl_output" THEN <<Req("bind", 0, <<name>>)>>
  ELSE IF interface = "wl_seat" /\ seat = NoName
       THEN <<Req("bind", -1, <<name>>), Req("get_pointer", -1, <<>>),
              Req("get_keyboard", -1, <<>>)>>
  ELSE IF \/ interface = "wl_compositor" /\ compositor = NoName
          \/ interface = "wl_shm" /\ shm = NoName
          \/ interface = "wp_fractional_scale_manager_v1" /\ fs_manager = NoName
          \/ interface = "wp_viewporter" /\ viewporter = NoName
          \/ interface = "zxdg_output_manager_v1" /\ xdg_output_manager = NoName
          \/ interface = "zwlr_screencopy_manager_v1" /\ screencopy_manager = NoName
          \/ interface = "zwlr_layer_shell_v1" /\ layer_shell = NoName
       THEN <<Req("bind", -1, <<name>>)>>
  ELSE <<>>

\* the requests of Event::Global: one bind when a branch is taken, and
\* get_pointer, get_keyboard after binding the seat
GlobalRequests(name, interface) ==
  IF interface = "wl_output" THEN <<Req("bind", Len(outputs), <<name>>)>>
  ELSE IF interface = "wl_seat" /\ seat = NoName
       THEN <<Req("bind", -1, <<name>>), Req("get_pointer", -1, <<>>),
              Req("get_keyboard", -1, <<>>)>>
  ELSE IF \/ interface = "wl_compositor" /\ compositor = NoName
          \/ interface = "wl_shm" /\ shm = NoName
          \/ interface = "wp_fractional_scale_manager_v1" /\ fs_manager = NoName
          \/ interface = "wp_viewporter" /\ viewporter = NoName
          \/ interface = "zxdg_output_manager_v1" /\ xdg_output_manager = NoName
          \/ interface = "zwlr_screencopy_manager_v1" /\ screencopy_manager = NoName
          \/ interface = "zwlr_layer_shell_v1" /\ layer_shell = NoName
       THEN <<Req("bind", -1, <<name>>)>>
  ELSE <<>>

\* the server announces its next global during the round-trip of new
Global ==
  /\ pc = "roundtrip"
  /\ announced < Len(globals)
  /\ announced' = announced + 1
  /\ RegistryGlobal(announced + 1, globals[announced + 1])
  /\ Handled(Ev("Global", -1, <<announced + 1>>),
             GlobalRequests(announced + 1, globals[announced + 1]))
  /\ UNCHANGED <<geovars, shmvars, layervars, kbvars, argvars, countvars, exit,
                 pc, globals, xdg_unanswered, frame_state, configures, acks,
                 attaches, closed, sent_scale, extra>>

\* an output is plugged in while freeze runs: a new wl_output global
HotplugGlobal ==
  /\ Dispatching
  /\ extra > 0
  /\ extra' = extra - 1
  /\ globals' = Append(globals, "wl_output")
  /\ announced' = announced + 1
  /\ RegistryGlobal(announced + 1, "wl_output")
  /\ Handled(Ev("Global", -1, <<announced + 1>>),
             GlobalRequests(announced + 1, "wl_output"))
  /\ UNCHANGED <<geovars, shmvars, layervars, kbvars, argvars, countvars, exit,
                 pc, xdg_unanswered, frame_state, configures, acks,
                 attaches, closed, sent_scale>>

\* Event::GlobalRemove: the if-let / else-if-let chain of lines 183-218; only
\* the first capability that is bound is compared with the name
RegistryGlobalRemove(name) ==
  IF compositor # NoName
  THEN /\ compositor' = IF name = compositor THEN NoName ELSE compositor
       /\ UNCHANGED <<seat, shm, fs_manager, viewporter, screencopy_manager,
                      layer_shell>>
  ELSE IF seat # NoName
  THEN /\ seat' = IF name = seat THEN NoName ELSE seat
       /\ UNCHANGED <<compositor, shm, fs_manager, viewporter,
                      screencopy_manager, layer_shell>>
  ELSE IF shm # NoName
  THEN /\ shm' = IF name = shm THEN NoName ELSE shm
       /\ UNCHANGED <<compositor, seat, fs_manager, viewporter,
                      screencopy_manager, layer_shell>>
  ELSE IF fs_manager # NoName
  THEN /\ fs_manager' = IF name = fs_manager THEN NoName ELSE fs_manager
       /\ UNCHANGED <<compositor, seat, shm, viewporter, screencopy_manager,
                      layer_shell>>
  ELSE IF viewporter # NoName
  THEN /\ viewporter' = IF name = viewporter THEN NoName ELSE viewporter
       /\ UNCHANGED <<compositor, seat, shm, fs_manager, screencopy_manager,
                      layer_shell>>
  ELSE IF screencopy_manager # NoName
  THEN /\ screencopy_manager' = IF name = screencopy_manager THEN NoName
                                ELSE screencopy_manager
       /\ UNCHANGED <<compositor, seat, shm, fs_manager, viewporter, layer_shell>>
  ELSE IF layer_shell # NoName
  THEN /\ layer_shell' = IF name = layer_shell THEN NoName ELSE layer_shell
       /\ UNCHANGED <<compositor, seat, shm, fs_manager, viewporter,
                      screencopy_manager>>
  ELSE UNCHANGED <<compositor, seat, shm, fs_manager, viewporter,
                   screencopy_manager, layer_shell>>

\* the server withdraws a global it has announced
GlobalRemove ==
  /\ Dispatching
  /\ extra > 0
  /\ extra' = extra - 1
  /\ \E name \in 1..announced :
       /\ RegistryGlobalRemove(name)
       /\ Handled(Ev("GlobalRemove", -1, <<name>>), <<>>)
  /\ UNCHANGED <<xdg_output_manager, pointer, keyboard, outputs, geovars,
                 shmvars, layervars, kbvars, argvars, countvars, exit, pc,
                 srvvars>>

(* ---------------------- wl_output (lines 225-287) ---------------------- *)

\* Event::Mode, lines 235-246
OutputMode(i, width, height) ==
  /\ phys_widths' = vec_insert(phys_widths, i, width)
  /\ phys_heights' = vec_insert(phys_heights, i, height)

Mode ==
  /\ Dispatching
  /\ \E i \in OutputIds :
       \E first \in BOOLEAN :
         /\ first = ~Has(phys_widths, i)
         /\ first \/ extra > 0
         /\ extra' = IF first THEN extra ELSE extra - 1
         /\ \E sz \in (IF first THEN {NominalMode(i)} ELSE ModeSizes) :
              /\ OutputMode(i, sz[1], sz[2])
              /\ Handled(Ev("Mode", i, sz), <<>>)
  /\ UNCHANGED <<capvars, outputs, surfaces, widths, heights, transforms,
                 shmvars, layervars, kbvars, argvars, countvars, exit, pc,
                 srvvars>>

\* the surface made for output i by the next create_surface: surfaces are
\* told apart by the output and a running number
NewSurface(i) == IF Has(surfaces, i) THEN surfaces[i] + 1 ELSE 1

\* Event::Geometry, lines 247-283: record the transform; without an
\* xdg-output manager return; ask for the xdg_output; without a compositor
\* return; create the surface
OutputGeometry(i, transform) ==
  /\ transforms' = vec_insert(transforms, i, transform)
  /\ IF xdg_output_manager = NoName
     THEN /\ reqs' = <<>>
          /\ UNCHANGED <<xdg_unanswered, surfaces>>
     ELSE /\ xdg_unanswered' = vec_insert(xdg_unanswered, i, Count(xdg_unanswered, i) + 1)
          /\ IF compositor = NoName
             THEN /\ reqs' = <<Req("get_xdg_output", i, <<>>)>>
                  /\ UNCHANGED surfaces
             ELSE /\ reqs' = <<Req("get_xdg_output", i, <<>>),
                               Req("create_surface", i, <<NewSurface(i)>>)>>
                  /\ surfaces' = vec_insert(surfaces, i, NewSurface(i))

Geometry ==
  /\ Dispatching
  /\ \E i \in OutputIds :
       \E first \in BOOLEAN :
         /\ first = ~Has(transforms, i)
         /\ first \/ extra > 0
         /\ extra' = IF first THEN extra ELSE extra - 1
         /\ \E t \in (IF first THEN {NominalTransform(i)} ELSE Transforms) :
              /\ OutputGeometry(i, t)
              /\ ev' = Ev("Geometry", i, <<t>>)
  /\ dispatched' = TRUE
  /\ unflushed' = unflushed \cup Awaited(reqs')
  /\ UNCHANGED <<capvars, outputs, widths, heights, phys_widths, phys_heights,
                 shmvars, layervars, kbvars, argvars, countvars, exit, pc,
                 cmdlog, globals, announced, frame_state, configures, acks,
                 attaches, closed, sent_scale>>

(* -------------------- zxdg_output_v1 (lines 640-665) ------------------- *)

\* Event::LogicalSize, lines 650-661
XdgLogicalSize(i, width, height) ==
  /\ widths' = vec_insert(widths, i, width)
  /\ heights' = vec_insert(heights, i, height)
  /\ outputs_ready' = outputs_ready + 1

\* an xdg_output sends its logical size once after it is created, and again
\* when the size changes.  A wl_output sends its mode when it is bound, so
\* the mode is delivered before the answer to the later get_xdg_output, and
\* that answer comes after get_xdg_output was flushed
LogicalSize ==
  /\ Dispatching
  /\ \E i \in DOMAIN xdg_unanswered :
       \E first \in BOOLEAN :
         /\ Has(phys_widths, i)
         /\ <<"get_xdg_output", i>> \notin unflushed
         /\ first = (xdg_unanswered[i] > 0)
         /\ first \/ extra > 0
         /\ extra' = IF first THEN extra ELSE extra - 1
         /\ xdg_unanswered' =
              IF first THEN [xdg_unanswered EXCEPT ![i] = @ - 1] ELSE xdg_unanswered
         /\ \E sz \in (IF first THEN {NominalLogical(i)} ELSE LogicalSizes) :
              /\ XdgLogicalSize(i, sz[1], sz[2])
              /\ Handled(Ev("LogicalSize", i, sz), <<>>)
  /\ UNCHANGED <<capvars, outputs, surfaces, phys_widths, phys_heights,
                 transforms, shmvars, layervars, kbvars, argvars, frames_ready,
                 output_count, exit, pc, globals, announced, frame_state,
                 configures, acks, attaches, closed, sent_scale>>


\* the client has a mapped surface (a buffer was committed on it), so the
\* server may give it keyboard focus and pointer events
Focus == \E i \in DOMAIN configured_surfaces : <<"attach", i>> \notin unflushed

(* --------------------- wl_pointer (lines 313-338) ---------------------- *)

\* a variant of PointerButton: the flag is assigned from the button state
PointerButtonAssign(button, button_state) ==
  exit' = (button_state = Released)

\* Event::Button, lines 323-334: every state but Released returns
PointerButton(button, button_state) ==
  exit' = IF button_state # Released THEN exit ELSE TRUE

Button ==
  /\ Dispatching
  /\ pointer
  /\ Focus
  /\ \E button \in Buttons, button_state \in KeyStates :
       /\ PointerButton(button, button_state)
       /\ Handled(Ev("Button", -1, <<button, button_state>>), <<>>)
  /\ UNCHANGED <<capvars, outputs, geovars, shmvars, layervars, kbvars, argvars,
                 countvars, pc, srvvars, extra>>

(* --------------------- wl_keyboard (lines 340-402) --------------------- *)

\* xkb::State::key_get_one_sym on the state made from keymap km
KeySym(km, keycode) ==
  IF km = "us"
  THEN (IF keycode = 9 THEN "Escape"
        ELSE IF keycode = 66 THEN "Caps_Lock" ELSE "NoSymbol")
  ELSE IF km = "swapescape"
  THEN (IF keycode = 9 THEN "Caps_Lock"
        ELSE IF keycode = 66 THEN "Escape" ELSE "NoSymbol")
  ELSE "NoSymbol"

\* a variant of Keycode: the evdev code is looked up as it arrives
KeycodeNoOffset(key) == key

\* xkb::Keycode::new(key + 8), line 392
Keycode(key) == key + 8

\* a variant of KeyboardKey: the key state is not looked at
KeyboardKeyAnyState(key, key_state) ==
  exit' = IF kbstate = "None" THEN exit
          ELSE IF KeySym(kbstate, Keycode(key)) = "Escape" THEN TRUE
          ELSE exit

\* Event::Key, lines 377-398
KeyboardKey(key, key_state) ==
  exit' = IF key_state # Pressed THEN exit
          ELSE IF kbstate = "None" THEN exit
          ELSE IF KeySym(kbstate, Keycode(key)) = "Escape" THEN TRUE
          ELSE exit

Key ==
  /\ Dispatching
  /\ keyboard
  /\ Focus
  /\ \E key \in Keys, key_state \in KeyStates :
       /\ KeyboardKey(key, key_state)
       /\ Handled(Ev("Key", -1, <<key, key_state>>), <<>>)
  /\ UNCHANGED <<capvars, outputs, geovars, shmvars, layervars, kbvars, argvars,
                 countvars, pc, srvvars, extra>>

\* Event::Keymap, lines 350-376: a format other than XkbV1 and a missing
\* context return; a keymap that does not compile panics (expect, unwrap)
KeyboardKeymap(format, id) ==
  IF format # XkbV1 \/ ~context
  THEN UNCHANGED <<keymap, kbstate, pc>>
  ELSE IF id = "broken"
  THEN /\ pc' = "panicked"
       /\ UNCHANGED <<keymap, kbstate>>
  ELSE /\ kbstate' = id
       /\ keymap' = id
       /\ UNCHANGED pc

\* the keymap is sent after get_keyboard, and again when the layout changes
Keymap ==
  /\ Dispatching
  /\ keyboard
  /\ \E first \in BOOLEAN :
       /\ first = (kbstate = "None")
       /\ \E format \in KeymapFormats, id \in KeymapIds :
            /\ (first /\ format = XkbV1 /\ id = "us") \/ extra > 0
            /\ extra' = IF first /\ format = XkbV1 /\ id = "us"
                         THEN extra ELSE extra - 1
            /\ KeyboardKeymap(format, id)
            /\ Handled(Ev("Keymap", -1, <<format, IF id = "us" THEN 0
                                                  ELSE IF id = "swapescape" THEN 1
                                                  ELSE 2>>), <<>>)
  /\ UNCHANGED <<capvars, outputs, geovars, shmvars, layervars, context, argvars,
                 countvars, exit, srvvars>>

(* -------------- zwlr_screencopy_frame_v1 (lines 545-625) --------------- *)

\* the buffer the server asks for: the output's size, and a stride that is
\* padded on output 1
NominalStride(i, w) == IF i = 1 THEN 4 * w + 64 ELSE 4 * w

\* a variant of FrameBuffer: the stride is computed from the width, four
\* bytes a pixel
FrameBufferOwnStride(i, format, width, height, stride) ==
  IF DOMAIN shm_pools = {}
  THEN /\ reqs' = <<>>
       /\ UNCHANGED <<buffers, pc>>
  ELSE IF ~Has(shm_pools, i) \/ format = UnknownFormat
  THEN /\ reqs' = <<>>
       /\ pc' = "panicked"
       /\ UNCHANGED buffers
  ELSE /\ reqs' = <<Req("create_buffer", i, <<0, width, height, 4 * width, format>>)>>
       /\ buffers' = vec_insert(buffers, i,
                        [pool |-> i, offset |-> 0, width |-> width,
                         height |-> height, stride |-> 4 * width, format |-> format])
       /\ UNCHANGED pc

\* Event::Buffer, lines 555-590: without pools return; pools[data] panics
\* on a missing key, expect panics on an unknown format; the buffer is
\* created at offset 0 with the event's parameters
FrameBuffer(i, format, width, height, stride) ==
  IF DOMAIN shm_pools = {}
  THEN /\ reqs' = <<>>
       /\ UNCHANGED <<buffers, pc>>
  ELSE IF ~Has(shm_pools, i) \/ format = UnknownFormat
  THEN /\ reqs' = <<>>
       /\ pc' = "panicked"
       /\ UNCHANGED buffers
  ELSE /\ reqs' = <<Req("create_buffer", i, <<0, width, height, stride, format>>)>>
       /\ buffers' = vec_insert(buffers, i,
                        [pool |-> i, offset |-> 0, width |-> width,
                         height |-> height, stride |-> stride, format |-> format])
       /\ UNCHANGED pc

Buffer ==
  /\ Dispatching
  /\ \E i \in DOMAIN frame_state :
       /\ frame_state[i] = "requested"
       /\ frame_state' = [frame_state EXCEPT ![i] = "buffer"]
       /\ \E format \in Formats :
            /\ format = Xrgb8888 \/ extra > 0
            /\ extra' = IF format = Xrgb8888 THEN extra ELSE extra - 1
            /\ FrameBuffer(i, format, NominalMode(i)[1], NominalMode(i)[2],
                           NominalStride(i, NominalMode(i)[1]))
            /\ ev' = Ev("Buffer", i, <<format, NominalMode(i)[1], NominalMode(i)[2],
                                       NominalStride(i, NominalMode(i)[1])>>)
  /\ dispatched' = TRUE
  /\ unflushed' = unflushed \cup Awaited(reqs')
  /\ UNCHANGED <<capvars, outputs, geovars, shm_pools, screencopy_frames,
                 layervars, kbvars, argvars, countvars, exit, cmdlog, globals,
                 announced, xdg_unanswered, configures, acks, attaches, closed,
                 sent_scale>>

\* a variant of FrameBufferDone: the frame is copied into the buffer that
\* was registered first
FrameBufferDoneFirstBuffer(i) ==
  IF DOMAIN buffers = {}
  THEN /\ reqs' = <<>>
       /\ UNCHANGED pc
  ELSE IF ~Has(buffers, i)
  THEN /\ reqs' = <<>>
       /\ pc' = "panicked"
  ELSE /\ reqs' = <<Req("copy", i,
                        <<buffers[CHOOSE k \in DOMAIN buffers :
                                    \A x \in DOMAIN buffers : k <= x].pool>>)>>
       /\ UNCHANGED pc

\* Event::BufferDone, lines 591-605: without buffers return; buffer[data]
\* panics on a missing key; copy into the buffer of this output
FrameBufferDone(i) ==
  IF DOMAIN buffers = {}
  THEN /\ reqs' = <<>>
       /\ UNCHANGED pc
  ELSE IF ~Has(buffers, i)
  THEN /\ reqs' = <<>>
       /\ pc' = "panicked"
  ELSE /\ reqs' = <<Req("copy", i, <<buffers[i].pool>>)>>
       /\ UNCHANGED pc

BufferDone ==
  /\ Dispatching
  /\ \E i \in DOMAIN frame_state :
       /\ frame_state[i] = "buffer"
       /\ FrameBufferDone(i)
       /\ frame_state' = [frame_state EXCEPT ![i] =
                            IF Has(buffers, i) THEN "copied" ELSE "done"]
       /\ ev' = Ev("BufferDone", i, <<>>)
  /\ dispatched' = TRUE
  /\ unflushed' = unflushed \cup Awaited(reqs')
  /\ UNCHANGED <<appvars, cmdlog, globals, announced, xdg_unanswered, configures,
                 acks, attaches, closed, sent_scale, extra>>

\* Event::Ready, lines 606-613
FrameReady(i) == frames_ready' = frames_ready + 1

\* the copy succeeded
Ready ==
  /\ Dispatching
  /\ \E i \in DOMAIN frame_state :
       /\ frame_state[i] = "copied"
       /\ <<"copy", i>> \notin unflushed
       /\ frame_state' = [frame_state EXCEPT ![i] = "ready"]
       /\ FrameReady(i)
       /\ Handled(Ev("Ready", i, <<>>), <<>>)
  /\ UNCHANGED <<capvars, outputs, geovars, shmvars, layervars, kbvars, argvars,
                 outputs_ready, output_count, exit, pc, globals, announced,
                 xdg_unanswered, configures, acks, attaches, closed, sent_scale,
                 extra>>

\* Event::Failed, lines 614-621
FrameFailed(i) == exit' = TRUE

\* the capture failed; a frame ends with Ready or with Failed
Failed ==
  /\ Dispatching
  /\ \E i \in DOMAIN frame_state :
       /\ frame_state[i] \in {"requested", "buffer", "done", "copied"}
       /\ frame_state' = [frame_state EXCEPT ![i] = "failed"]
       /\ FrameFailed(i)
       /\ Handled(Ev("Failed", i, <<>>), <<>>)
  /\ UNCHANGED <<capvars, outputs, geovars, shmvars, layervars, kbvars, argvars,
                 countvars, pc, globals, announced, xdg_unanswered, configures,
                 acks, attaches, closed, sent_scale, extra>>


(* --------------- zwlr_layer_surface_v1 (lines 467-530) ----------------- *)

\* how many requests op the sequence rs holds for output i
Sent(rs, op, i) ==
  Cardinality({k \in DOMAIN rs : rs[k].op = op /\ rs[k].output = i})

\* a variant of ConfigureRun: the acknowledgement is sent after the buffer
\* is attached and committed
ConfigureRunAckLast(i, serial) ==
  LET ack == <<Req("ack_configure", i, <<serial>>)>>
  IN
  IF Has(configured_surfaces, i)
  THEN [reqs |-> ack, outcome |-> "dup"]
  ELSE IF DOMAIN surfaces = {} \/ DOMAIN buffers = {} \/ DOMAIN transforms = {}
  THEN [reqs |-> ack, outcome |-> "dropped"]
  ELSE IF ~Has(surfaces, i) \/ ~Has(buffers, i) \/ ~Has(transforms, i)
  THEN [reqs |-> <<>>, outcome |-> "panicked"]
  ELSE [reqs |-> <<Req("commit", i, <<surfaces[i]>>),
                   Req("attach", i, <<surfaces[i], buffers[i].pool>>),
                   Req("set_buffer_scale", i, <<surfaces[i], 1>>),
                   Req("set_buffer_transform", i, <<surfaces[i], transforms[i]>>),
                   Req("commit", i, <<surfaces[i]>>)>> \o ack,
        outcome |-> "done"]

\* a variant of ConfigureRun: a Configure event of a surface that is
\* already configured is not acknowledged
ConfigureRunAckOnce(i, serial) ==
  LET ack == <<Req("ack_configure", i, <<serial>>)>>
  IN
  IF Has(configured_surfaces, i)
  THEN [reqs |-> <<>>, outcome |-> "dup"]
  ELSE IF DOMAIN surfaces = {} \/ DOMAIN buffers = {} \/ DOMAIN transforms = {}
  THEN [reqs |-> ack, outcome |-> "dropped"]
  ELSE IF ~Has(surfaces, i) \/ ~Has(buffers, i) \/ ~Has(transforms, i)
  THEN [reqs |-> ack, outcome |-> "panicked"]
  ELSE [reqs |-> ack \o
                 <<Req("commit", i, <<surfaces[i]>>),
                   Req("attach", i, <<surfaces[i], buffers[i].pool>>),
                   Req("set_buffer_scale", i, <<surfaces[i], 1>>),
                   Req("set_buffer_transform", i, <<surfaces[i], transforms[i]>>),
                   Req("commit", i, <<surfaces[i]>>)>>,
        outcome |-> "done"]

\* a variant of ConfigureRun: the buffer transform is always Normal
ConfigureRunTransformNormal(i, serial) ==
  LET ack == <<Req("ack_configure", i, <<serial>>)>>
  IN
  IF Has(configured_surfaces, i)
  THEN [reqs |-> ack, outcome |-> "dup"]
  ELSE IF DOMAIN surfaces = {} \/ DOMAIN buffers = {} \/ DOMAIN transforms = {}
  THEN [reqs |-> ack, outcome |-> "dropped"]
  ELSE IF ~Has(surfaces, i) \/ ~Has(buffers, i) \/ ~Has(transforms, i)
  THEN [reqs |-> ack, outcome |-> "panicked"]
  ELSE [reqs |-> ack \o
                 <<Req("commit", i, <<surfaces[i]>>),
                   Req("attach", i, <<surfaces[i], buffers[i].pool>>),
                   Req("set_buffer_scale", i, <<surfaces[i], 1>>),
                   Req("set_buffer_transform", i, <<surfaces[i], 0>>),
                   Req("commit", i, <<surfaces[i]>>)>>,
        outcome |-> "done"]

\* Event::Configure, lines 477-519, as the requests sent and how the
\* handler ends: "dup" (already configured), "dropped" (a collection is
\* None), "panicked" (a HashMap index without its key), "done"
ConfigureRun(i, serial) ==
  LET ack == <<Req("ack_configure", i, <<serial>>)>>
  IN
  IF Has(configured_surfaces, i)
  THEN [reqs |-> ack, outcome |-> "dup"]
  ELSE IF DOMAIN surfaces = {} \/ DOMAIN buffers = {} \/ DOMAIN transforms = {}
  THEN [reqs |-> ack, outcome |-> "dropped"]
  ELSE IF ~Has(surfaces, i)
  THEN [reqs |-> ack, outcome |-> "panicked"]
  ELSE LET first == ack \o <<Req("commit", i, <<surfaces[i]>>)>>
       IN
       IF ~Has(buffers, i)
       THEN [reqs |-> first, outcome |-> "panicked"]
       ELSE LET attach == first \o <<Req("attach", i, <<surfaces[i], buffers[i].pool>>),
                                     Req("set_buffer_scale", i, <<surfaces[i], 1>>)>>
            IN
            IF ~Has(transforms, i)
            THEN [reqs |-> attach, outcome |-> "panicked"]
            ELSE [reqs |-> attach \o
                           <<Req("set_buffer_transform", i, <<surfaces[i], transforms[i]>>),
                             Req("commit", i, <<surfaces[i]>>)>>,
                  outcome |-> "done"]

LayerConfigure(i, serial) ==
  LET r == ConfigureRun(i, serial)
  IN
  /\ reqs' = r.reqs
  /\ configured_surfaces' =
       IF r.outcome = "done" THEN vec_insert(configured_surfaces, i, serial)
       ELSE configured_surfaces
  /\ pc' = IF r.outcome = "panicked" THEN "panicked" ELSE pc

\* the server configures a layer surface after its first commit, and may
\* configure it again; the serial counts the Configure events of the surface
Configure ==
  /\ Dispatching
  /\ \E i \in (DOMAIN layer_surfaces) \ closed :
       \E first \in BOOLEAN :
         /\ first = ~Has(configures, i)
         /\ first \/ extra > 0
         /\ extra' = IF first THEN extra ELSE extra - 1
         /\ configures' = vec_insert(configures, i, Count(configures, i) + 1)
         /\ LayerConfigure(i, Count(configures, i) + 1)
         /\ acks' = vec_insert(acks, i, Count(acks, i) + Sent(reqs', "ack_configure", i))
         /\ attaches' = vec_insert(attaches, i, Count(attaches, i) + Sent(reqs', "attach", i))
         /\ ev' = Ev("Configure", i, <<Count(configures, i) + 1>>)
  /\ dispatched' = TRUE
  /\ unflushed' = unflushed \cup Awaited(reqs')
  /\ UNCHANGED <<capvars, outputs, geovars, shmvars, scales, viewports,
                 layer_surfaces, kbvars, argvars, countvars, exit, cmdlog,
                 globals, announced, xdg_unanswered, frame_state, closed,
                 sent_scale>>

\* Event::Closed, lines 520-526
LayerClosed(i) == reqs' = <<Req("destroy", i, <<>>)>>

Closed ==
  /\ Dispatching
  /\ extra > 0
  /\ extra' = extra - 1
  /\ \E i \in (DOMAIN layer_surfaces) \ closed :
       /\ closed' = closed \cup {i}
       /\ LayerClosed(i)
       /\ ev' = Ev("Closed", i, <<>>)
  /\ dispatched' = TRUE
  /\ unflushed' = unflushed \cup Awaited(reqs')
  /\ UNCHANGED <<appvars, pc, cmdlog, globals, announced, xdg_unanswered,
                 frame_state, configures, acks, attaches, sent_scale>>

(* --------------- wp_fractional_scale_v1 (lines 680-751) ---------------- *)

\* lines 697-709: the scale is compared with the recorded one only when the
\* index is below the number of recorded scales; scales[data] panics on a
\* missing key.  "same", "panicked" or "changed"
ScaleCheck(i, scale) ==
  IF DOMAIN scales # {} /\ i < Cardinality(DOMAIN scales)
  THEN (IF ~Has(scales, i) THEN "panicked"
        ELSE IF scales[i] = scale THEN "same" ELSE "changed")
  ELSE "changed"

\* a variant of ScaleRun: after the resize every surface is committed, not
\* only the one of this output
ScaleRunCommitAll(i, scale) ==
  IF ScaleCheck(i, scale) # "changed"
  THEN [reqs |-> <<>>, outcome |-> ScaleCheck(i, scale)]
  ELSE IF \/ DOMAIN surfaces = {} \/ DOMAIN layer_surfaces = {}
          \/ DOMAIN viewports = {} \/ DOMAIN widths = {} \/ DOMAIN heights = {}
  THEN [reqs |-> <<>>, outcome |-> "dropped"]
  ELSE IF \/ ~Has(viewports, i) \/ ~Has(widths, i) \/ ~Has(heights, i)
          \/ ~Has(layer_surfaces, i) \/ ~Has(surfaces, i)
  THEN [reqs |-> <<>>, outcome |-> "panicked"]
  ELSE [reqs |-> <<Req("set_source", i, <<-1, -1, -1, -1>>),
                   Req("set_destination", i, <<widths[i], heights[i]>>),
                   Req("set_size", i, <<widths[i], heights[i]>>)>> \o
                 [k \in 1..Len(outputs) |->
                    Req("commit", k - 1,
                        <<IF Has(surfaces, k - 1) THEN surfaces[k - 1] ELSE -1>>)],
        outcome |-> "done"]

\* Event::PreferredScale, lines 690-747, as the requests sent and how the
\* handler ends: "same", "dropped", "panicked" or "done"
ScaleRun(i, scale) ==
  IF ScaleCheck(i, scale) # "changed"
  THEN [reqs |-> <<>>, outcome |-> ScaleCheck(i, scale)]
  ELSE IF \/ DOMAIN surfaces = {} \/ DOMAIN layer_surfaces = {}
          \/ DOMAIN viewports = {} \/ DOMAIN widths = {} \/ DOMAIN heights = {}
  THEN [reqs |-> <<>>, outcome |-> "dropped"]
  ELSE IF ~Has(viewports, i)
  THEN [reqs |-> <<>>, outcome |-> "panicked"]
  ELSE LET src == <<Req("set_source", i, <<-1, -1, -1, -1>>)>>
       IN
       IF ~Has(widths, i) \/ ~Has(heights, i)
       THEN [reqs |-> src, outcome |-> "panicked"]
       ELSE LET dst == src \o <<Req("set_destination", i, <<widths[i], heights[i]>>)>>
            IN
            IF ~Has(layer_surfaces, i)
            THEN [reqs |-> dst, outcome |-> "panicked"]
            ELSE LET size == dst \o <<Req("set_size", i, <<widths[i], heights[i]>>)>>
                 IN
                 IF ~Has(surfaces, i)
                 THEN [reqs |-> size, outcome |-> "panicked"]
                 ELSE [reqs |-> size \o <<Req("commit", i, <<surfaces[i]>>)>>,
                       outcome |-> "done"]

FractionalPreferredScale(i, scale) ==
  LET r == ScaleRun(i, scale)
  IN
  /\ reqs' = r.reqs
  /\ scales' = IF r.outcome = "done" THEN vec_insert(scales, i, scale) ELSE scales
  /\ pc' = IF r.outcome = "panicked" THEN "panicked" ELSE pc

\* the server sends a preferred scale on a fractional-scale object at any
\* time after get_fractional_scale
PreferredScale ==
  /\ Dispatching
  /\ \E i \in DOMAIN sent_scale, scale \in Scales :
       /\ sent_scale' = [sent_scale EXCEPT ![i] = scale]
       /\ FractionalPreferredScale(i, scale)
       /\ ev' = Ev("PreferredScale", i, <<scale>>)
  /\ dispatched' = TRUE
  /\ unflushed' = unflushed \cup Awaited(reqs')
  /\ UNCHANGED <<capvars, outputs, geovars, shmvars, viewports, layer_surfaces,
                 configured_surfaces, kbvars, argvars, countvars, exit, cmdlog,
                 globals, announced, xdg_unanswered, frame_state, configures,
                 acks, attaches, closed, extra>>


(* ----------------- ScreenFreezer::freeze (lines 816-1000) -------------- *)

\* byte k of a non-negative i32
Byte(x, k) == (x \div (IF k = 0 THEN 1 ELSE IF k = 1 THEN 256
                       ELSE IF k = 2 THEN 65536 ELSE 16777216)) % 256

\* the i32 with the bytes r0 (lowest) .. r3, two's complement
FromBytes(r0, r1, r2, r3) ==
  (IF r3 >= 128 THEN r3 - 256 ELSE r3) * 16777216 + r2 * 65536 + r1 * 256 + r0

\* a * b in i32 arithmetic that wraps, for a >= 0: the product byte by
\* byte, the carries passed upwards, the bytes above the fourth dropped
MulI32(a, b) ==
  IF b < 0 THEN 0 - 1
  ELSE
  LET c0 == Byte(a, 0) * Byte(b, 0)
      c1 == Byte(a, 0) * Byte(b, 1) + Byte(a, 1) * Byte(b, 0)
      c2 == Byte(a, 0) * Byte(b, 2) + Byte(a, 1) * Byte(b, 1) + Byte(a, 2) * Byte(b, 0)
      c3 == Byte(a, 0) * Byte(b, 3) + Byte(a, 1) * Byte(b, 2)
            + Byte(a, 2) * Byte(b, 1) + Byte(a, 3) * Byte(b, 0)
      t1 == c1 + (c0 \div 256)
      t2 == c2 + (t1 \div 256)
      t3 == c3 + (t2 \div 256)
  IN FromBytes(c0 % 256, t1 % 256, t2 % 256, t3 % 256)

\* line 874: phys_heights[&i] * phys_widths[&i] * 4
PoolSize(width, height) == MulI32(4, MulI32(height, width))

\* i32::MAX
I32Max == 2147483647

\* a * b does not fit an i32, for a, b >= 0
OverflowsI32(a, b) == a > 0 /\ b > I32Max \div a

\* line 874 overflows: a build with overflow checks panics there, a build
\* without them wraps
PoolSizeOverflows(width, height) ==
  \/ OverflowsI32(height, width)
  \/ OverflowsI32(MulI32(height, width), 4)

\* what a for loop of freeze has done so far: the collections it fills, the
\* requests it sent, and "ok", "returned" (return Ok(())) or "panicked"
LoopStart(m) == [map |-> m, reqs |-> <<>>, outcome |-> "ok"]

\* a variant of CaptureOutput: an output without a recorded mode gets a
\* pool of size 0 and is captured
CaptureOutputUnsized(i, overflow_checks, acc) ==
  IF \/ screencopy_manager = NoName \/ shm = NoName
     \/ DOMAIN phys_widths = {} \/ DOMAIN phys_heights = {}
  THEN [acc EXCEPT !.outcome = "returned"]
  ELSE IF ~Has(phys_heights, i) \/ ~Has(phys_widths, i)
  THEN [map |-> vec_insert(acc.map, i, 0),
        reqs |-> acc.reqs \o
                 <<Req("create_pool", i, <<0>>),
                   Req("capture_output", i, <<IF hide_cursor THEN 0 ELSE 1>>)>>,
        outcome |-> "ok"]
  ELSE IF overflow_checks /\ PoolSizeOverflows(phys_widths[i], phys_heights[i])
  THEN [acc EXCEPT !.outcome = "panicked"]
  ELSE IF PoolSize(phys_widths[i], phys_heights[i]) < 0
  THEN [acc EXCEPT !.outcome = "panicked"]
  ELSE [map |-> vec_insert(acc.map, i, PoolSize(phys_widths[i], phys_heights[i])),
        reqs |-> acc.reqs \o
                 <<Req("create_pool", i, <<PoolSize(phys_widths[i], phys_heights[i])>>),
                   Req("capture_output", i, <<IF hide_cursor THEN 0 ELSE 1>>)>>,
        outcome |-> "ok"]

\* one pass of the capture loop, lines 849-889, in a build with
\* (overflow_checks) or without overflow checks; set_len of a negative size
\* fails and unwrap panics
CaptureOutput(i, overflow_checks, acc) ==
  IF \/ screencopy_manager = NoName \/ shm = NoName
     \/ DOMAIN phys_widths = {} \/ DOMAIN phys_heights = {}
  THEN [acc EXCEPT !.outcome = "returned"]
  ELSE IF ~Has(phys_heights, i) \/ ~Has(phys_widths, i)
  THEN [acc EXCEPT !.outcome = "panicked"]
  ELSE IF overflow_checks /\ PoolSizeOverflows(phys_widths[i], phys_heights[i])
  THEN [acc EXCEPT !.outcome = "panicked"]
  ELSE IF PoolSize(phys_widths[i], phys_heights[i]) < 0
  THEN [acc EXCEPT !.outcome = "panicked"]
  ELSE [map |-> vec_insert(acc.map, i, PoolSize(phys_widths[i], phys_heights[i])),
        reqs |-> acc.reqs \o
                 <<Req("create_pool", i, <<PoolSize(phys_widths[i], phys_heights[i])>>),
                   Req("capture_output", i, <<IF hide_cursor THEN 0 ELSE 1>>)>>,
        outcome |-> "ok"]

RECURSIVE CaptureLoop(_, _, _, _)
CaptureLoop(i, n, overflow_checks, acc) ==
  IF i = n \/ acc.outcome # "ok" THEN acc
  ELSE CaptureLoop(i + 1, n, overflow_checks, CaptureOutput(i, overflow_checks, acc))

\* one pass of the layer-surface loop, lines 918-950
LayerSurfaceFor(i, acc) ==
  IF DOMAIN surfaces = {} \/ layer_shell = NoName
  THEN [acc EXCEPT !.outcome = "returned"]
  ELSE IF ~Has(surfaces, i)
  THEN [acc EXCEPT !.outcome = "panicked"]
  ELSE [map |-> vec_insert(acc.map, i, surfaces[i]),
        reqs |-> acc.reqs \o
                 <<Req("get_layer_surface", i, <<surfaces[i]>>),
                   Req("set_anchor", i, <<15>>),
                   Req("set_exclusive_zone", i, <<-1>>),
                   Req("set_keyboard_interactivity", i, <<1>>)>>,
        outcome |-> "ok"]

RECURSIVE LayerLoop(_, _, _)
LayerLoop(i, n, acc) ==
  IF i = n \/ acc.outcome # "ok" THEN acc
  ELSE LayerLoop(i + 1, n, LayerSurfaceFor(i, acc))

\* one pass of the viewport loop, lines 953-977
ViewportFor(i, acc) ==
  IF DOMAIN surfaces = {}
  THEN [acc EXCEPT !.outcome = "returned"]
  ELSE IF ~Has(surfaces, i)
  THEN [acc EXCEPT !.outcome = "panicked"]
  ELSE IF viewporter = NoName \/ fs_manager = NoName
  THEN [acc EXCEPT !.reqs = @ \o <<Req("commit", i, <<surfaces[i]>>)>>,
                   !.outcome = "returned"]
  ELSE [map |-> vec_insert(acc.map, i, surfaces[i]),
        reqs |-> acc.reqs \o
                 <<Req("commit", i, <<surfaces[i]>>),
                   Req("get_viewport", i, <<surfaces[i]>>),
                   Req("get_fractional_scale", i, <<surfaces[i]>>)>>,
        outcome |-> "ok"]

RECURSIVE ViewportLoop(_, _, _)
ViewportLoop(i, n, acc) ==
  IF i = n \/ acc.outcome # "ok" THEN acc
  ELSE ViewportLoop(i + 1, n, ViewportFor(i, acc))

\* where freeze is after a loop that ended with outcome o, next being the
\* place it reaches when the loop ran to its end
After(o, next) ==
  IF o = "ok" THEN next ELSE o

\* a step of freeze itself handles no event; it ends in a call of
\* blocking_dispatch, which flushes the connection
Step(rs) ==
  /\ ev' = NoEv
  /\ reqs' = rs
  /\ dispatched' = FALSE
  /\ unflushed' = {}

\* the end of ScreenFreezer::new (lines 805-815) and lines 816-834 of freeze:
\* the round-trip has delivered the globals, the xkb context is made, the
\* outputs are counted, the counters are reset
FreezeEnter ==
  /\ pc = "roundtrip"
  /\ announced = Len(globals)
  /\ context' = TRUE
  /\ output_count' = IF Len(outputs) > 0 THEN Len(outputs) ELSE output_count
  /\ exit' = IF Len(outputs) > 0 THEN exit ELSE TRUE
  /\ outputs_ready' = 0
  /\ frames_ready' = 0
  /\ pc' = "dispatch0"
  /\ Step(<<>>)
  /\ UNCHANGED <<capvars, outputs, geovars, shmvars, layervars, keymap, kbstate,
                 argvars, cmdlog, srvvars, extra>>

\* line 834 returns
Dispatch0Return ==
  /\ pc = "dispatch0"
  /\ dispatched
  /\ pc' = "geom_wait"
  /\ Step(<<>>)
  /\ UNCHANGED <<appvars, cmdlog, srvvars, extra>>

\* lines 836-890: the geometry wait and, once it is over, the capture loop
GeomWaitReturn ==
  /\ pc = "geom_wait"
  /\ dispatched
  /\ IF outputs_ready # output_count
     THEN /\ Step(<<>>)
          /\ UNCHANGED <<pc, shm_pools, screencopy_frames, frame_state>>
     ELSE IF Len(outputs) = 0
     THEN /\ pc' = "returned"
          /\ Step(<<>>)
          /\ UNCHANGED <<shm_pools, screencopy_frames, frame_state>>
     ELSE \E overflow_checks \in BOOLEAN :
          LET r == CaptureLoop(0, Len(outputs), overflow_checks, LoopStart(shm_pools))
          IN
          /\ shm_pools' = r.map
          /\ screencopy_frames' = [i \in DOMAIN r.map |-> i]
          /\ frame_state' = [i \in DOMAIN r.map |-> "requested"]
          /\ pc' = After(r.outcome, "frame_wait")
          /\ Step(r.reqs)
  /\ UNCHANGED <<capvars, outputs, geovars, buffers, layervars, kbvars, argvars,
                 countvars, exit, cmdlog, globals, announced, xdg_unanswered,
                 configures, acks, attaches, closed, sent_scale, extra>>

\* a variant of BeforeFreeze: the sleep, then the command
BeforeFreezeSleepFirst ==
  IF before_cmd # "" THEN <<"sleep_before", "spawn_before">> ELSE <<>>

\* lines 896-907 and 984-992: the commands that are run and the sleeps
BeforeFreeze == IF before_cmd # "" THEN <<"spawn_before", "sleep_before">> ELSE <<>>

\* a variant of AfterFreeze: the command is spawned, then the sleep
AfterFreezeSpawnFirst ==
  IF after_cmd # "" THEN <<"spawn_after", "sleep_after">> ELSE <<>>

AfterFreeze == IF after_cmd # "" THEN <<"sleep_after", "spawn_after">> ELSE <<>>

\* the commands and sleeps cmds as entries of a step's record
Local(cmds) == [k \in DOMAIN cmds |-> Req(cmds[k], -1, <<>>)]

\* a variant of SurfacesPending: the wait ends with the first configured
\* surface
SurfacesPendingUntilFirst(configured) == Cardinality(DOMAIN configured) = 0

\* line 979: the surface wait goes on
SurfacesPending(configured) == Cardinality(DOMAIN configured) # output_count

\* line 895: the frame wait goes on
FramesPending == frames_ready # output_count

\* lines 892-992: the frame wait and, once it is over, the before-freeze
\* command, the layer-surface loop, the viewport loop and the first test of
\* the surface wait
FrameWaitReturn ==
  /\ pc = "frame_wait"
  /\ dispatched
  /\ IF FramesPending
     THEN /\ Step(<<>>)
          /\ UNCHANGED <<pc, cmdlog, layer_surfaces, viewports, sent_scale>>
     ELSE LET l == LayerLoop(0, Len(outputs), LoopStart(layer_surfaces))
              v == ViewportLoop(0, Len(outputs), LoopStart(viewports))
          IN
          /\ layer_surfaces' = l.map
          /\ IF l.outcome # "ok"
             THEN /\ pc' = l.outcome
                  /\ cmdlog' = cmdlog \o BeforeFreeze
                  /\ Step(Local(BeforeFreeze) \o l.reqs)
                  /\ UNCHANGED <<viewports, sent_scale>>
             ELSE /\ viewports' = v.map
                  /\ sent_scale' = [i \in DOMAIN v.map |-> 0]
                  /\ IF v.outcome # "ok"
                     THEN /\ pc' = v.outcome
                          /\ cmdlog' = cmdlog \o BeforeFreeze
                          /\ Step(Local(BeforeFreeze) \o l.reqs \o v.reqs)
                     ELSE IF SurfacesPending(configured_surfaces)
                     THEN /\ pc' = "surface_wait"
                          /\ cmdlog' = cmdlog \o BeforeFreeze
                          /\ Step(Local(BeforeFreeze) \o l.reqs \o v.reqs)
                     ELSE /\ pc' = "terminal"
                          /\ cmdlog' = cmdlog \o BeforeFreeze \o AfterFreeze
                          /\ Step(Local(BeforeFreeze) \o l.reqs \o v.reqs
                                    \o Local(AfterFreeze))
  /\ UNCHANGED <<capvars, outputs, geovars, shmvars, scales, configured_surfaces,
                 kbvars, argvars, countvars, exit, globals, announced,
                 xdg_unanswered, frame_state, configures, acks, attaches, closed,
                 extra>>

\* lines 979-992: the surface wait and, once it is over, the after-freeze
\* command
SurfaceWaitReturn ==
  /\ pc = "surface_wait"
  /\ dispatched
  /\ IF SurfacesPending(configured_surfaces)
     THEN /\ Step(<<>>)
          /\ UNCHANGED <<pc, cmdlog>>
     ELSE /\ pc' = "terminal"
          /\ cmdlog' = cmdlog \o AfterFreeze
          /\ Step(Local(AfterFreeze))
  /\ UNCHANGED <<appvars, srvvars, extra>>

\* lines 994-999: the terminal loop; std::process::exit(0) when exit is set
TerminalReturn ==
  /\ pc = "terminal"
  /\ dispatched
  /\ pc' = IF exit THEN "exited" ELSE pc
  /\ Step(<<>>)
  /\ UNCHANGED <<appvars, cmdlog, srvvars, extra>>

\* the status the process ends with: exit(0), main returning Ok(()), or a
\* panic
ExitStatus ==
  IF pc = "exited" \/ pc = "returned" THEN 0
  ELSE IF pc = "panicked" THEN 101 ELSE -1

Terminated == pc \in {"exited", "returned", "panicked"}

Next ==
  \/ Global \/ GlobalRemove
  \/ Mode \/ Geometry \/ LogicalSize
  \/ Button \/ Key \/ Keymap
  \/ Buffer \/ BufferDone \/ Ready \/ Failed
  \/ Configure \/ Closed \/ PreferredScale
  \/ FreezeEnter \/ Dispatch0Return \/ GeomWaitReturn \/ FrameWaitReturn
  \/ SurfaceWaitReturn \/ TerminalReturn

Spec == Init /\ [][Next]_vars


(* ---------------- a server that answers every request ----------------- *)

\* the server sends no extra event: one geometry, mode and logical size per
\* output, buffer parameters, parameters done and ready per capture, one
\* configure per layer surface, preferred scales, and the user's input
AnsweringInit == InitApp /\ extra = 0

AnsweringNext ==
  \/ Global
  \/ Mode \/ Geometry \/ LogicalSize
  \/ Button \/ Key \/ Keymap
  \/ Buffer \/ BufferDone \/ Ready
  \/ Configure \/ PreferredScale
  \/ FreezeEnter \/ Dispatch0Return \/ GeomWaitReturn \/ FrameWaitReturn
  \/ SurfaceWaitReturn \/ TerminalReturn

\* the server delivers what it has to send, and blocking_dispatch returns
\* once it has dispatched an event
AnsweringFairness ==
  /\ WF_vars(Global)
  /\ WF_vars(Mode) /\ WF_vars(Geometry) /\ WF_vars(LogicalSize)
  /\ WF_vars(Keymap)
  /\ WF_vars(Buffer) /\ WF_vars(BufferDone) /\ WF_vars(Ready)
  /\ WF_vars(Configure) /\ WF_vars(PreferredScale)
  /\ WF_vars(FreezeEnter) /\ WF_vars(Dispatch0Return) /\ WF_vars(GeomWaitReturn)
  /\ WF_vars(FrameWaitReturn) /\ WF_vars(SurfaceWaitReturn)
  /\ WF_vars(TerminalReturn)

SpecAnswering == AnsweringInit /\ [][AnsweringNext]_vars /\ AnsweringFairness

\* the same server, except that a capture may end with Failed
FailingNext == AnsweringNext \/ Failed

SpecFailing ==
  AnsweringInit /\ [][FailingNext]_vars /\ AnsweringFairness /\ WF_vars(Failed)


(* ------------- a server on which outputs may be plugged in ------------- *)

\* the outputs the server advertises, plugged-in ones included
AdvertisedOutputs == Len(globals) - Len(BaseGlobals)

\* the server starts with fewer than MaxOutputs outputs
HotplugInit == Init /\ AdvertisedOutputs < MaxOutputs

\* the server of Spec, which may also announce a new wl_output while freeze
\* runs; the user's input is left out
HotplugNext ==
  \/ Global \/ HotplugGlobal \/ GlobalRemove
  \/ Mode \/ Geometry \/ LogicalSize
  \/ Keymap
  \/ Buffer \/ BufferDone \/ Ready \/ Failed
  \/ Configure \/ Closed \/ PreferredScale
  \/ FreezeEnter \/ Dispatch0Return \/ GeomWaitReturn \/ FrameWaitReturn
  \/ SurfaceWaitReturn \/ TerminalReturn

SpecHotplug == HotplugInit /\ [][HotplugNext]_vars

(* ============================ properties ============================== *)

\* the number of configured surfaces, the third readiness counter
ConfiguredCount == Cardinality(DOMAIN configured_surfaces)

(* ---- C1 ---- *)

\* C1: none of the three readiness counters (outputs_ready, frames_ready,
\* the number of configured surfaces) ever decreases, and none is ever
\* greater than output_count, whatever the server repeats
C1_ReadinessCountersBounded ==
  /\ [](/\ outputs_ready <= output_count
        /\ frames_ready <= output_count
        /\ ConfiguredCount <= output_count)
  /\ [][/\ outputs_ready' >= outputs_ready
        /\ frames_ready' >= frames_ready
        /\ ConfiguredCount' >= ConfiguredCount]_vars

(* ---- C2 ---- *)

\* acknowledgements of Configure events of output i that the client has sent
\* before the request at place p of the current step
AcksBefore(i, p) ==
  Count(acks, i)
    - Cardinality({q \in DOMAIN reqs :
                     q >= p /\ reqs[q].op = "ack_configure" /\ reqs[q].output = i})

\* C2: a buffer is attached to the surface of output i, in whatever handler
\* or step, only after an ack_configure was sent for that output (so only
\* after a Configure event for it was received)
C2_AttachOnlyAfterAck ==
  /\ \A p \in DOMAIN reqs :
       reqs[p].op = "attach" =>
         /\ AcksBefore(reqs[p].output, p) > 0
         /\ Count(configures, reqs[p].output) > 0
         /\ ev.kind = "Configure" /\ ev.output = reqs[p].output
  /\ \A i \in DOMAIN attaches : attaches[i] > 0 => Count(acks, i) > 0

\* the Configure handler has just attached and committed the buffer of an
\* output
C2_Witness ==
  /\ ev.kind = "Configure"
  /\ Sent(reqs, "attach", ev.output) = 1
  /\ Sent(reqs, "commit", ev.output) = 2
  /\ Has(configured_surfaces, ev.output)

(* ---- C3 ---- *)

\* C3: over a whole run at most one ack_configure is sent per surface
C3_AtMostOneAck ==
  \A i \in DOMAIN acks : acks[i] <= 1

\* C3, as the code has it: every Configure event delivered for a surface is
\* acknowledged, once each, repeated ones too; the buffer is attached at
\* most once per surface
C3_AckPerConfigure ==
  /\ \A i \in DOMAIN configures : Count(acks, i) = configures[i]
  /\ \A i \in DOMAIN attaches : attaches[i] <= 1
  /\ ev.kind = "Configure" => Sent(reqs, "ack_configure", ev.output) = 1

\* a surface that was configured has received a second Configure event
C3_Witness ==
  /\ ev.kind = "Configure"
  /\ Count(configures, ev.output) = 2
  /\ Count(attaches, ev.output) = 1
  /\ Has(configured_surfaces, ev.output)

(* ---- C4 ---- *)

\* C4: a preferred-scale event for output i that carries the value of the
\* preferred-scale event last sent for i sends no request and changes
\* nothing, whatever was received for the other outputs
C4_RepeatedScaleIsNoOp ==
  [][(/\ ev'.kind = "PreferredScale"
      /\ Has(sent_scale, ev'.output)
      /\ sent_scale[ev'.output] = ev'.args[1])
     => (reqs' = <<>> /\ UNCHANGED appvars /\ pc' = pc)]_vars

(* ---- C5 ---- *)

\* C5: a preferred-scale event for output j that changes the recorded scale
\* sends one set_destination and one set_size of j's logical size and one
\* commit of j's surface (after the set_source that fills the viewport),
\* records the scale of j, and sends no request for and changes no scale of
\* another output
C5_ScaleChangeTouchesOneOutput ==
  [][(ev'.kind = "PreferredScale" /\ scales' # scales)
     => LET j == ev'.output
            S == ev'.args[1]
        IN /\ reqs' = <<Req("set_source", j, <<-1, -1, -1, -1>>),
                        Req("set_destination", j, <<widths[j], heights[j]>>),
                        Req("set_size", j, <<widths[j], heights[j]>>),
                        Req("commit", j, <<surfaces[j]>>)>>
           /\ scales' = vec_insert(scales, j, S)
           /\ \A k \in DOMAIN scales' : k # j => Has(scales, k) /\ scales'[k] = scales[k]
           /\ UNCHANGED <<surfaces, widths, heights, viewports, layer_surfaces>>]_vars

\* the scale of output 1 has just changed while output 0 has another
\* recorded scale
C5_Witness ==
  /\ ev.kind = "PreferredScale" /\ ev.output = 1
  /\ Len(reqs) = 4
  /\ Has(scales, 0) /\ Has(scales, 1)
  /\ scales[1] = ev.args[1]
  /\ scales[0] # scales[1]

(* ---- C6 ---- *)

\* freeze is in its terminal loop and the three readiness counters equal
\* the number of outputs
ReachedTerminal ==
  /\ pc = "terminal"
  /\ output_count = AdvertisedOutputs
  /\ outputs_ready = output_count
  /\ frames_ready = output_count
  /\ ConfiguredCount = output_count

\* C6: with at least one output and a server that answers every request,
\* the client reaches the terminal loop with outputs_ready, frames_ready and
\* the number of configured surfaces all equal to the number of outputs, in
\* whatever order the events arrive
C6_ReachesTerminalLoop ==
  (AdvertisedOutputs >= 1) => <>ReachedTerminal

(* ---- C7 ---- *)

LoopIteration ==
  /\ pc \in {"geom_wait", "frame_wait", "surface_wait", "terminal"}
  /\ dispatched
  /\ ev'.kind = "none"

\* C8: once the exit flag is set, at any point of the run, the next
\* iteration of the loop freeze is in ends the process with status 0; no
\* further event is needed
C8_ExitFlagEndsNextIteration ==
  [][(exit /\ LoopIteration) => (pc' \in {"exited", "returned"})]_vars

(* ---- C9 ---- *)

\* C9: a press of the key whose code plus 8 the keymap resolves to Escape
\* sets the exit flag, and so does the release of any pointer button
C9_EscapeAndReleaseSetExit ==
  /\ (/\ ev.kind = "Key"
      /\ ev.args[2] = Pressed
      /\ kbstate # "None"
      /\ KeySym(kbstate, ev.args[1] + 8) = "Escape") => exit
  /\ (ev.kind = "Button" /\ ev.args[2] = Released) => exit

\* the Escape key of the usual keymap has just been pressed
C9_Witness ==
  /\ ev.kind = "Key"
  /\ ev.args = <<KEY_ESC, Pressed>>
  /\ kbstate = "us"
  /\ exit
  /\ pc # "exited"

(* ---- C10 ---- *)

\* the event just handled is one the input handlers ignore: a key release,
\* a press of a key that is not Escape, a press before any keymap was
\* received, a press of a pointer button
IgnoredInput(e) ==
  \/ /\ e.kind = "Key"
     /\ \/ e.args[2] # Pressed
        \/ kbstate = "None"
        \/ KeySym(kbstate, e.args[1] + 8) # "Escape"
  \/ (e.kind = "Button" /\ e.args[2] = Pressed)

\* C10: a key release, a press of a key other than Escape, a key press
\* before any keymap was received and a press of a pointer button leave the
\* exit flag and all other state as they were, and send nothing
C10_IgnoredInputChangesNothing ==
  [][IgnoredInput(ev') => (UNCHANGED appvars /\ pc' = pc /\ reqs' = <<>>)]_vars

\* a key was pressed before any keymap arrived, and the Escape key was
\* released, with the exit flag still clear
C10_Witness ==
  /\ ev.kind = "Key"
  /\ \/ (ev.args[2] = Pressed /\ kbstate = "None")
     \/ (ev.args = <<KEY_ESC, Released>> /\ kbstate = "us")
  /\ ~exit

(* ---- C11 ---- *)

\* the step just taken asked for a capture or created a shared-memory pool
CaptureIssued ==
  \E p \in DOMAIN reqs : reqs[p].op \in {"capture_output", "create_pool"}

\* C11: when the round-trip has discovered no output the process
\* terminates, and the run never asks for a capture and never creates a
\* shared-memory pool
C11_NoOutputsTerminates ==
  (AdvertisedOutputs = 0) => (<>Terminated /\ []~CaptureIssued)

(* ---- C12 ---- *)

\* C12: a run that found no output ends with a status other than 0, and
\* the status is 0 only when the process has left through the exit flag
C12_ZeroStatusOnlyThroughExitFlag ==
  /\ (Terminated /\ AdvertisedOutputs = 0) => ExitStatus # 0
  /\ (ExitStatus = 0) => (pc = "exited" /\ exit)

(* ---- C13 ---- *)

\* size is width * height * 4, told without a product that could overflow
ExactPoolSize(width, height, size) ==
  /\ size >= 0
  /\ size % 4 = 0
  /\ (size \div 4) % width = 0
  /\ (size \div 4) \div width = height

\* C13: the pool of output i is created with a declared size, and a backing
\* file of a length, of exactly W * H * 4 bytes, W x H being the
\* physical size recorded for i, whatever 32-bit values W and H are
C13_PoolSizeIsExact ==
  \A p \in DOMAIN reqs :
    reqs[p].op = "create_pool" =>
      LET i == reqs[p].output
      IN /\ ExactPoolSize(phys_widths[i], phys_heights[i], reqs[p].args[1])
         /\ ExactPoolSize(phys_widths[i], phys_heights[i], shm_pools[i])

(* ---- C14 ---- *)

\* C14: the buffer of output i is created by the handler of i's Buffer
\* event, at offset 0 of the pool of i, with the width, height, stride and
\* format of that event (so it spans stride * height bytes), and it is
\* recorded under i
C14_BufferAsReported ==
  /\ \A p \in DOMAIN reqs :
       reqs[p].op = "create_buffer" =>
         /\ ev.kind = "Buffer" /\ ev.output = reqs[p].output
         /\ reqs[p].args = <<0, ev.args[2], ev.args[3], ev.args[4], ev.args[1]>>
  /\ (ev.kind = "Buffer" /\ Has(shm_pools, ev.output) /\ ev.args[1] # UnknownFormat)
       => /\ Sent(reqs, "create_buffer", ev.output) = 1
          /\ Len(reqs) = 1
          /\ Has(buffers, ev.output)
          /\ buffers[ev.output] =
               [pool |-> ev.output, offset |-> 0, width |-> ev.args[2],
                height |-> ev.args[3], stride |-> ev.args[4], format |-> ev.args[1]]

\* a buffer has just been created from a Buffer event whose stride is not
\* four times its width
C14_Witness ==
  /\ ev.kind = "Buffer"
  /\ ev.args[4] # 4 * ev.args[2]
  /\ Sent(reqs, "create_buffer", ev.output) = 1
  /\ buffers[ev.output].stride = ev.args[4]

(* ---- C15 ---- *)

\* the handler of the event e, a GlobalRemove, leaves no capability bound
\* under the name the event carries
RevokedIsCleared(e) ==
  /\ compositor = e.args[1] => compositor' = NoName
  /\ seat = e.args[1] => seat' = NoName
  /\ shm = e.args[1] => shm' = NoName
  /\ fs_manager = e.args[1] => fs_manager' = NoName
  /\ viewporter = e.args[1] => viewporter' = NoName
  /\ xdg_output_manager = e.args[1] => xdg_output_manager' = NoName
  /\ screencopy_manager = e.args[1] => screencopy_manager' = NoName
  /\ layer_shell = e.args[1] => layer_shell' = NoName

\* C15: a GlobalRemove event that carries the name under which a
\* capability is bound clears that capability, whichever kind it is and
\* whatever else is bound
C15_RevokedCapabilityCleared ==
  [][ev'.kind = "GlobalRemove" => RevokedIsCleared(ev')]_vars

(* ---- C16 ---- *)

\* the interfaces of the eight capability kinds
CapabilityKinds ==
  {"wl_compositor", "wl_seat", "wl_shm", "wp_fractional_scale_manager_v1",
   "wp_viewporter", "zxdg_output_manager_v1", "zwlr_screencopy_manager_v1",
   "zwlr_layer_shell_v1"}

\* the name under which the capability of kind k is bound, NoName if none
BoundAs(k) ==
  CASE k = "wl_compositor" -> compositor
    [] k = "wl_seat" -> seat
    [] k = "wl_shm" -> shm
    [] k = "wp_fractional_scale_manager_v1" -> fs_manager
    [] k = "wp_viewporter" -> viewporter
    [] k = "zxdg_output_manager_v1" -> xdg_output_manager
    [] k = "zwlr_screencopy_manager_v1" -> screencopy_manager
    [] k = "zwlr_layer_shell_v1" -> layer_shell

\* C16: at most one instance of each capability kind is bound: the handler
\* of a Global event binds the global only if it is of a capability kind
\* whose slot is empty (or an output), and a Global event of a kind that is
\* already bound leaves the slot as it is and binds nothing
C16_OneInstancePerKind ==
  [][ev'.kind = "Global" =>
       LET name == ev'.args[1]
           interface == globals'[name]
       IN /\ \A k \in CapabilityKinds :
               BoundAs(k)' = IF k = interface /\ BoundAs(k) = NoName
                             THEN name ELSE BoundAs(k)
          /\ Len(SelectSeq(reqs', LAMBDA r : r.op = "bind")) =
               IF \/ interface = "wl_output"
                  \/ (interface \in CapabilityKinds /\ BoundAs(interface) = NoName)
               THEN 1 ELSE 0]_vars

\* the second seat has just been announced: the first one stays bound and
\* nothing is sent
C16_Witness ==
  /\ ev.kind = "Global"
  /\ globals[ev.args[1]] = "wl_seat"
  /\ seat # NoName /\ seat # ev.args[1]
  /\ reqs = <<>>

(* ---- C17 ---- *)

\* C17: an output is bound with the index that equals the number of
\* outputs bound before it, so the indices are 0, 1, 2, ... in the order of
\* discovery; no output is held at two indices, and the outputs bound
\* keep their indices: the vector only grows at its end
C17_OutputIndicesSequential ==
  /\ [](\A j, k \in 1..Len(outputs) : j # k => outputs[j] # outputs[k])
  /\ [][/\ Len(outputs') >= Len(outputs)
        /\ SubSeq(outputs', 1, Len(outputs)) = outputs
        /\ outputs' # outputs => ev'.kind = "Global"
        /\ (ev'.kind = "Global" /\ globals'[ev'.args[1]] = "wl_output")
             => /\ outputs' = Append(outputs, ev'.args[1])
                /\ reqs' = <<Req("bind", Len(outputs), <<ev'.args[1]>>)>>]_vars

\* an output plugged in while freeze runs has just been bound as the second
\* one, with index 1
C17_Witness ==
  /\ ev.kind = "Global"
  /\ pc # "roundtrip"
  /\ Len(outputs) = 2
  /\ outputs[2] = ev.args[1]
  /\ reqs = <<Req("bind", 1, <<ev.args[1]>>)>>

(* ---- C18 ---- *)

\* how often the command or sleep c is in the sequence of names cmds
Times(cmds, c) == Cardinality({k \in DOMAIN cmds : cmds[k] = c})

\* C18: each of the two commands is spawned at most once in a run and only
\* if its string is not empty; the before-freeze command is spawned when
\* frames_ready equals output_count and before the first layer surface is
\* created; the after-freeze command is spawned when the number of
\* configured surfaces equals output_count, right after its sleep
C18_CommandsOnceAndInOrder ==
  /\ [](/\ Times(cmdlog, "spawn_before") <= 1
        /\ Times(cmdlog, "spawn_after") <= 1
        /\ Times(cmdlog, "spawn_before") = 1 => before_cmd # ""
        /\ Times(cmdlog, "spawn_after") = 1 => after_cmd # "")
  /\ [][\A p \in DOMAIN reqs' :
          /\ reqs'[p].op = "spawn_before" =>
               /\ before_cmd # ""
               /\ frames_ready = output_count
               /\ DOMAIN layer_surfaces = {}
               /\ Times(cmdlog, "spawn_before") = 0
               /\ Times(cmdlog', "spawn_before") = 1
               /\ \A q \in DOMAIN reqs' :
                    reqs'[q].op = "get_layer_surface" => p < q
          /\ reqs'[p].op = "spawn_after" =>
               /\ after_cmd # ""
               /\ ConfiguredCount = output_count
               /\ Times(cmdlog, "spawn_after") = 0
               /\ Times(cmdlog', "spawn_after") = 1
               /\ p > 1 /\ reqs'[p - 1].op = "sleep_after"]_vars
  /\ [][cmdlog' # cmdlog =>
          \E p \in DOMAIN reqs' : reqs'[p].op \in {"spawn_before", "spawn_after"}]_vars

\* both commands have run, the after-freeze command just now
C18_Witness ==
  /\ pc = "terminal"
  /\ cmdlog = <<"spawn_before", "sleep_before", "sleep_after", "spawn_after">>
  /\ Sent(reqs, "spawn_after", -1) = 1
  /\ ConfiguredCount = output_count
  /\ output_count = 2

(* ---- C19 ---- *)

\* C19: the before-freeze sleep comes right after the before-freeze
\* command and before any capture_output request is sent
C19_SleepBeforeCapture ==
  [][\A p \in DOMAIN reqs' :
       reqs'[p].op = "sleep_before" =>
         /\ p > 1 /\ reqs'[p - 1].op = "spawn_before"
         /\ DOMAIN screencopy_frames = {}
         /\ Sent(reqs', "capture_output", -1) = 0]_vars

\* C19, as the code has it: the before-freeze sleep comes right after the
\* before-freeze command, when every output has been captured (its
\* capture_output was sent and its frame is ready), and before any layer
\* surface is created
C19_SleepBeforeLayerSurfaces ==
  [][\A p \in DOMAIN reqs' :
       reqs'[p].op = "sleep_before" =>
         /\ p > 1 /\ reqs'[p - 1].op = "spawn_before"
         /\ DOMAIN screencopy_frames = OutputIds
         /\ \A i \in OutputIds : frame_state[i] = "ready"
         /\ \A q \in DOMAIN reqs' : reqs'[q].op # "capture_output"
         /\ DOMAIN layer_surfaces = {}
         /\ \A q \in DOMAIN reqs' :
              reqs'[q].op = "get_layer_surface" => p < q]_vars

\* the before-freeze command has run and the sleep is over; the layer
\* surfaces of two captured outputs are then created
C19_Witness ==
  /\ Sent(reqs, "sleep_before", -1) = 1
  /\ Sent(reqs, "get_layer_surface", 0) = 1
  /\ Sent(reqs, "get_layer_surface", 1) = 1
  /\ \A i \in OutputIds : frame_state[i] = "ready"
  /\ pc = "surface_wait"

(* ---- C20 ---- *)

\* C20: a capture_output request is sent only when outputs_ready equals
\* output_count, a layer surface is created only when frames_ready equals
\* output_count, and the terminal loop is entered only when the number of
\* configured surfaces equals output_count
C20_PhasesWaitForCounters ==
  [][/\ (\E p \in DOMAIN reqs' : reqs'[p].op = "capture_output")
          => (pc = "geom_wait" /\ outputs_ready = output_count)
     /\ (\E p \in DOMAIN reqs' : reqs'[p].op = "get_layer_surface")
          => (pc = "frame_wait" /\ frames_ready = output_count)
     /\ (pc # "terminal" /\ pc' = "terminal")
          => (ConfiguredCount = output_count
              /\ ConfiguredCount' = output_count')]_vars

\* the terminal loop has been entered with two outputs, after each of the
\* three waits has seen its counter reach two
C20_Witness ==
  /\ pc = "terminal"
  /\ output_count = 2
  /\ outputs_ready = 2
  /\ frames_ready = 2
  /\ ConfiguredCount = 2
  /\ DOMAIN screencopy_frames = OutputIds
  /\ DOMAIN layer_surfaces = OutputIds

(* ---- C21 ---- *)

\* C21: the buffer of output i is attached to the surface of output i only
\* after the capture of output i is ready (its Ready event was handled),
\* whichever of Ready and Configure the server sends first
C21_AttachOnlyAfterReady ==
  /\ \A p \in DOMAIN reqs :
       reqs[p].op = "attach" =>
         /\ Has(frame_state, reqs[p].output)
         /\ frame_state[reqs[p].output] = "ready"
         /\ reqs[p].args = <<surfaces[reqs[p].output], reqs[p].output>>
  /\ \A i \in DOMAIN attaches :
       attaches[i] > 0 => (Has(frame_state, i) /\ frame_state[i] = "ready")

(* ---- C22 ---- *)

\* C22: the first Configure event of output i sends, in this order, the
\* acknowledgement, a commit of i's surface before any buffer is attached to
\* it, the attach of i's buffer, buffer scale 1, the buffer transform
\* recorded for i and a second commit, and then adds i to
\* configured_surfaces; every later Configure event of i sends no attach
\* and no commit and leaves configured_surfaces as it is
C22_FirstConfigureSequence ==
  [][ev'.kind = "Configure" =>
       LET i == ev'.output
           serial == ev'.args[1]
       IN IF Count(configures, i) = 0
          THEN /\ Has(surfaces, i) /\ Has(buffers, i) /\ Has(transforms, i)
               /\ Count(attaches, i) = 0
               /\ buffers[i].pool = i
               /\ reqs' = <<Req("ack_configure", i, <<serial>>),
                            Req("commit", i, <<surfaces[i]>>),
                            Req("attach", i, <<surfaces[i], buffers[i].pool>>),
                            Req("set_buffer_scale", i, <<surfaces[i], 1>>),
                            Req("set_buffer_transform", i,
                                <<surfaces[i], transforms[i]>>),
                            Req("commit", i, <<surfaces[i]>>)>>
               /\ ~Has(configured_surfaces, i)
               /\ DOMAIN configured_surfaces' = DOMAIN configured_surfaces \cup {i}
          ELSE /\ \A p \in DOMAIN reqs' : reqs'[p].op \notin {"attach", "commit"}
               /\ configured_surfaces' = configured_surfaces]_vars

\* output 1, whose transform is not Normal, has received its first
\* Configure event when output 0 was configured already
C22_Witness ==
  /\ ev.kind = "Configure" /\ ev.output = 1 /\ ev.args = <<1>>
  /\ Len(reqs) = 6
  /\ reqs[5] = Req("set_buffer_transform", 1, <<surfaces[1], 1>>)
  /\ DOMAIN configured_surfaces = {0, 1}

(* ---- C23 ---- *)

\* the event e refers to an output for which a collection its handler reads
\* has no entry
RefersToMissingState(e) ==
  LET i == e.output
  IN \/ /\ e.kind = "PreferredScale"
        /\ \/ ~Has(surfaces, i) \/ ~Has(layer_surfaces, i) \/ ~Has(viewports, i)
           \/ ~Has(widths, i) \/ ~Has(heights, i)
     \/ e.kind = "Buffer" /\ ~Has(shm_pools, i)
     \/ e.kind = "BufferDone" /\ ~Has(buffers, i)
     \/ /\ e.kind = "Configure"
        /\ ~Has(configured_surfaces, i)
        /\ ~Has(surfaces, i) \/ ~Has(buffers, i) \/ ~Has(transforms, i)

\* C23: a PreferredScale, Buffer, BufferDone or Configure event for an
\* output that has no entry in a collection the handler needs is dropped:
\* the handler sends no request, changes nothing and does not panic
C23_MissingStateEventDropped ==
  [][RefersToMissingState(ev')
     => (reqs' = <<>> /\ UNCHANGED appvars /\ pc' = pc)]_vars

(* ---- C24 ---- *)

\* C24: the copy request of the capture of output i is sent only by the
\* BufferDone handler of i, after the Buffer event of i was handled and a
\* buffer was registered for i, and it copies into the buffer registered
\* for i
C24_CopyAfterBufferIntoOwnBuffer ==
  \A p \in DOMAIN reqs :
    reqs[p].op = "copy" =>
      LET i == reqs[p].output
      IN /\ ev.kind = "BufferDone" /\ ev.output = i
         /\ Has(frame_state, i) /\ frame_state[i] = "copied"
         /\ Has(buffers, i)
         /\ buffers[i].pool = i
         /\ reqs[p].args = <<buffers[i].pool>>
         /\ Len(reqs) = 1

\* the BufferDone handler of output 1 has just sent its copy request, with
\* buffers registered for both outputs
C24_Witness ==
  /\ ev.kind = "BufferDone" /\ ev.output = 1
  /\ reqs = <<Req("copy", 1, <<1>>)>>
  /\ DOMAIN buffers = {0, 1}

(* ---- C25 ---- *)

\* C25: over a run one surface is created and one get_xdg_output is sent
\* for each output, however many Geometry events the server sends for it:
\* neither is sent for an output that has had one; and creating the
\* surface of output i leaves the surfaces of the other outputs as they are
C25_OneSurfaceAndQueryPerOutput ==
  [][\A p \in DOMAIN reqs' :
       LET i == reqs'[p].output
       IN /\ reqs'[p].op = "get_xdg_output" => ~Has(xdg_unanswered, i)
          /\ reqs'[p].op = "create_surface" =>
               /\ ~Has(surfaces, i)
               /\ \A k \in DOMAIN surfaces : surfaces'[k] = surfaces[k]]_vars

(* ---- C26 ---- *)

\* C26: whenever a pool is created and a capture is requested for output i,
\* the physical width and height of i are recorded (and the pool is sized
\* from them); whenever the viewport or the layer surface of output i is
\* sized, the logical width and height of i are recorded (and are the size
\* that is set)
C26_SizesKnownBeforeUse ==
  \A p \in DOMAIN reqs :
    LET i == reqs[p].output
    IN /\ reqs[p].op \in {"create_pool", "capture_output"} =>
            Has(phys_widths, i) /\ Has(phys_heights, i)
       /\ reqs[p].op = "create_pool" =>
            reqs[p].args = <<PoolSize(phys_widths[i], phys_heights[i])>>
       /\ reqs[p].op \in {"set_destination", "set_size"} =>
            /\ Has(widths, i) /\ Has(heights, i)
            /\ reqs[p].args = <<widths[i], heights[i]>>

\* both outputs have been captured into pools of their physical size, and
\* the viewport and layer surface of output 1 have just been set to its
\* logical size
C26_Witness ==
  /\ ev.kind = "PreferredScale" /\ ev.output = 1
  /\ Sent(reqs, "set_destination", 1) = 1
  /\ Sent(reqs, "set_size", 1) = 1
  /\ widths[1] = 1280 /\ heights[1] = 720
  /\ DOMAIN shm_pools = {0, 1}
  /\ shm_pools[1] = 4 * 2560 * 1440

(* ---- C27 ---- *)

\* C27: the buffer of output i spans the pool of output i: it starts at
\* offset 0 in that pool and stride * height is the size of the pool,
\* whatever stride and size the server reports for the buffer
C27_BufferSpansPool ==
  \A i \in DOMAIN buffers :
    /\ buffers[i].pool = i
    /\ Has(shm_pools, i)
    /\ buffers[i].offset = 0
    /\ buffers[i].stride * buffers[i].height = shm_pools[i]

(* ---- C28 ---- *)

\* C28: the exit flag is monotonic: once it is true no handler and no step
\* of freeze makes it false
C28_ExitFlagMonotonic ==
  [][exit => exit']_vars

\* a button press, which does not ask for the exit, was handled when the
\* exit flag was already set
C28_Witness ==
  /\ exit
  /\ ev.kind = "Button"
  /\ ev.args[2] = Pressed

(* ---- C29 ---- *)

\* C29: once freeze has counted the outputs, output_count is the number of
\* bound outputs in every state, also when the server announces another
\* wl_output after the round-trip: every output the loops of freeze go over
\* is counted by the three waits
C29_OutputCountIsInventory ==
  pc # "roundtrip" => output_count = Len(outputs)

(* ---- C30 ---- *)

\* C30: the surface recorded for output i is not replaced once the layer
\* surface of i has been created, so the surface the Configure handler
\* attaches the buffer to is the one the layer surface, the viewport and the
\* fractional-scale object of i were created on
C30_SurfaceKeptAfterOverlay ==
  /\ \A i \in DOMAIN layer_surfaces :
       Has(surfaces, i) /\ surfaces[i] = layer_surfaces[i]
  /\ \A i \in DOMAIN viewports :
       Has(layer_surfaces, i) /\ viewports[i] = layer_surfaces[i]
  /\ \A p \in DOMAIN reqs :
       reqs[p].op = "attach" =>
         /\ Has(layer_surfaces, reqs[p].output)
         /\ reqs[p].args[1] = layer_surfaces[reqs[p].output]

(* ---- C31 ---- *)

\* C31: with two or more outputs whose surface, layer surface, viewport and
\* logical size exist, the first PreferredScale event of an output is
\* handled without a panic and records the scale of that output, whatever
\* the order in which the outputs receive their first event (output 1
\* before output 0, say)
C31_FirstScalesInAnyOrder ==
  [][(/\ ev'.kind = "PreferredScale"
      /\ Len(outputs) >= 2
      /\ Has(sent_scale, ev'.output) /\ sent_scale[ev'.output] = 0
      /\ \A k \in OutputIds :
           /\ Has(surfaces, k) /\ Has(layer_surfaces, k) /\ Has(viewports, k)
           /\ Has(widths, k) /\ Has(heights, k))
     => (/\ pc' = pc
         /\ scales' = vec_insert(scales, ev'.output, ev'.args[1]))]_vars

====
